---- MODULE Spec2Model ----
(***************************************************************************)
(* Model of register_terminal_reader.py: the three-step registration       *)
(* workflow (verify location, list readers, register reader) run against a *)
(* remote payments API.  The remote service and the transport are the      *)
(* environment: each call's reply is chosen nondeterministically.          *)
(***************************************************************************)
EXTENDS Integers, Sequences, FiniteSets, TLC

\* ---------------------------------------------------------------- bounds
MaxRuns == 2           \* invocations of the script that are explored
MaxPreexisting == 1    \* readers already on the remote service at the start

\* ------------------------------------------------------------- constants
PLACEHOLDER_KEY == "sk_live_YOUR_SECRET_KEY_HERE"
REAL_KEY == "sk_live_operator_key"
LOCATION_ID == "tml_GKsXoQ8u9cFZJF"
READER_TYPE == "tap_to_pay_android"
READER_LABEL == "Ohr Shalom Donation Kiosk"
HTTP_OK == 200

\* The values STRIPE_SECRET_KEY can hold: as shipped, or edited by the operator.
Credentials == {PLACEHOLDER_KEY, REAL_KEY}

\* Statuses the remote service may answer with.
Statuses == {200, 400, 401, 404, 500}

\* ------------------------------------------------- decoded JSON / Python values
\* Every value is a record [kind, val]; kind is "object", "list", "str" or "null".
JObj(f) == [kind |-> "object", val |-> f]
JList(q) == [kind |-> "list", val |-> q]
JStr(s) == [kind |-> "str", val |-> s]
None == [kind |-> "null", val |-> ""]
EmptyFields == [k \in {} |-> None]

\* Python truthiness of a value (`if reader:`, `if not location:`).
Truthy(v) ==
    CASE v.kind = "null" -> FALSE
      [] v.kind = "object" -> DOMAIN v.val # {}
      [] v.kind = "list" -> v.val # <<>>
      [] OTHER -> TRUE

Without(f, keys) == [k \in (DOMAIN f) \ keys |-> f[k]]

\* v[path[1]][path[2]]...: the value, or the exception subscripting raises.
RECURSIVE Lookup(_, _)
Lookup(v, path) ==
    IF path = <<>> THEN [exc |-> "", value |-> v]
    ELSE IF v.kind # "object" THEN [exc |-> "TypeError", value |-> None]
    ELSE IF Head(path) \notin DOMAIN v.val THEN [exc |-> "KeyError", value |-> None]
    ELSE Lookup(v.val[Head(path)], Tail(path))

\* One line of console output: a message tag and the interpolated values.
Line(m, a) == [msg |-> m, args |-> a]

\* A print statement whose f-string subscripts `v` along each of `paths`.
Stmt(m, paths) == [msg |-> m, paths |-> paths]

\* The first exception evaluating a statement's f-string raises ("" if none).
StmtExc(v, st) ==
    LET bad == {i \in 1..Len(st.paths) : Lookup(v, st.paths[i]).exc # ""}
    IN IF bad = {} THEN ""
       ELSE Lookup(v, st.paths[CHOOSE i \in bad : \A j \in bad : i <= j]).exc

StmtLine(v, st) ==
    Line(st.msg, [i \in 1..Len(st.paths) |-> Lookup(v, st.paths[i]).value])

\* Run print statements in order against `v`; stop at the first that raises.
RECURSIVE RunPrints(_, _)
RunPrints(v, stmts) ==
    IF stmts = <<>> THEN [out |-> <<>>, exc |-> ""]
    ELSE IF StmtExc(v, Head(stmts)) # ""
         THEN [out |-> <<>>, exc |-> StmtExc(v, Head(stmts))]
    ELSE LET rest == RunPrints(v, Tail(stmts))
         IN [out |-> <<StmtLine(v, Head(stmts))>> \o rest.out, exc |-> rest.exc]

\* ------------------------------------------------------- the remote service
\* A reader resource held by the service; idem is the idempotency key of the
\* request that created it ("" when the request carried none).
PreexistingReader(n) ==
    [id |-> n, label |-> "Front desk", device_type |-> "bbpos_wisepos_e",
     location |-> LOCATION_ID, status |-> "offline", idem |-> ""]

ReaderJson(r) ==
    JObj([id |-> JStr(<<"tmr", r.id>>), label |-> JStr(r.label),
          device_type |-> JStr(r.device_type), location |-> JStr(r.location),
          status |-> JStr(r.status)])

LocationJson ==
    JObj([display_name |-> JStr("Ohr Shalom"),
          address |-> JObj([line1 |-> JStr("1 Main St"), city |-> JStr("Springfield")])])

IdemKey(req) ==
    IF "Idempotency-Key" \in DOMAIN req.headers THEN req.headers["Idempotency-Key"] ELSE ""

\* The reader a create request yields: an earlier one when the request repeats
\* an idempotency key the service has seen, a fresh one otherwise.
ServiceReader(readers, req) ==
    LET same == {i \in 1..Len(readers) : IdemKey(req) # "" /\ readers[i].idem = IdemKey(req)}
    IN IF same # {} THEN readers[CHOOSE i \in same : TRUE]
       ELSE [id |-> Len(readers) + 1, label |-> req.data["label"],
             device_type |-> req.data["type"], location |-> req.data["location"],
             status |-> "online", idem |-> IdemKey(req)]

\* The service's readers after it has accepted a create request.
ServiceCreate(readers, req) ==
    IF \E i \in 1..Len(readers) : readers[i] = ServiceReader(readers, req)
    THEN readers
    ELSE Append(readers, ServiceReader(readers, req))

\* ------------------------------------------------------------ HTTP replies
\* transport: "ok", "no_connect" (the request never reached the service) or
\* "no_reply" (it did, the reply was lost); both make requests raise.
Reply(t, s, d, j) == [transport |-> t, status |-> s, decodable |-> d, json |-> j]
FailedReplies == {Reply(t, 0, FALSE, None) : t \in {"no_connect", "no_reply"}}
ErrorJson == JObj([error |-> JStr("invalid_metadata")])
ErrorReplies(okJson) ==
    {Reply("ok", s, TRUE, j) : s \in Statuses \ {HTTP_OK}, j \in {ErrorJson, okJson}}

\* Bodies a 200 reply may carry: the documented object, the object with
\* fields missing, a non-object, or bytes that are not JSON.
Damaged(obj, keys) == {JObj(Without(obj.val, d)) : d \in SUBSET keys}
OkReplies(jsons) ==
    {Reply("ok", HTTP_OK, TRUE, j) : j \in jsons \cup {None}}
        \cup {Reply("ok", HTTP_OK, FALSE, None)}

LocationJsons ==
    Damaged(LocationJson, {"display_name", "address"})
        \cup {JObj([LocationJson.val EXCEPT !["address"] = a]) :
                a \in Damaged(LocationJson.val["address"], {"line1", "city"})
                        \cup {JStr("1 Main St, Springfield")}}

LocationReplies == FailedReplies \cup ErrorReplies(LocationJson) \cup OkReplies(LocationJsons)

ReaderFields == {"id", "device_type", "location", "status"}
ReaderReplies(r) ==
    FailedReplies \cup ErrorReplies(ReaderJson(r))
        \cup OkReplies(Damaged(ReaderJson(r), ReaderFields))

\* A readers page: the service's readers in order, possibly with one field
\* missing from one entry, or without a usable data array.
ReadersPage(readers) == [i \in 1..Len(readers) |-> ReaderJson(readers[i])]
ListedFields == {"id", "label", "device_type", "location", "status"}
DamagedPages(readers) ==
    {[ReadersPage(readers) EXCEPT ![i] = JObj(Without(@.val, {f}))] :
        i \in 1..Len(readers), f \in ListedFields}
ListJson(page) == JObj([object |-> JStr("list"), data |-> JList(page)])
ListJsons(readers) ==
    {ListJson(p) : p \in {ReadersPage(readers)} \cup DamagedPages(readers)}
        \cup {JObj([object |-> JStr("list")]),
              JObj([object |-> JStr("list"), data |-> None]),
              JObj([object |-> JStr("list"), data |-> ErrorJson])}
ListReplies(readers) ==
    FailedReplies \cup ErrorReplies(ListJson(ReadersPage(readers)))
        \cup OkReplies(ListJsons(readers))

\* ------------------------------------------------------------- the program
Bearer(key) == <<"Bearer", key>>

\* headers and data of register_terminal_reader
RegisterHeadersWithIdempotencyKey(key) ==
    [k \in {"Authorization", "Content-Type", "Idempotency-Key"} |->
        CASE k = "Authorization" -> Bearer(key)
          [] k = "Content-Type" -> "application/x-www-form-urlencoded"
          [] OTHER -> "ohr-shalom-tablet-001"]
RegisterHeaders(key) ==
    [k \in {"Authorization", "Content-Type"} |->
        IF k = "Authorization" THEN Bearer(key) ELSE "application/x-www-form-urlencoded"]

RegisterData ==
    [k \in {"type", "location", "label", "metadata[tablet_id]",
            "metadata[app_version]", "metadata[purpose]"} |->
        CASE k = "type" -> READER_TYPE
          [] k = "location" -> LOCATION_ID
          [] k = "label" -> READER_LABEL
          [] k = "metadata[tablet_id]" -> "ohr-shalom-tablet-001"
          [] k = "metadata[app_version]" -> "1.8.3-terminal-fixed"
          [] OTHER -> "donation_kiosk"]

NoData == [k \in {} |-> ""]
Request(m, p, h, d) == [method |-> m, path |-> p, headers |-> h, data |-> d]
GetHeaders(key) == [k \in {"Authorization"} |-> Bearer(key)]

RegisterRequest(key) ==
    Request("POST", <<"terminal", "readers">>, RegisterHeaders(key), RegisterData)
ListRequest(key) ==
    Request("GET", <<"terminal", "readers">>, GetHeaders(key), NoData)
LocationRequest(key) ==
    Request("GET", <<"terminal", "locations", LOCATION_ID>>, GetHeaders(key), NoData)

\* `response.status_code == 200`
StatusOkBelow500(status) == status < 500
StatusOk(status) == status = HTTP_OK

\* `except Exception`: the exception classes the three handlers catch.
ExceptionClasses == {"ConnectionError", "JSONDecodeError", "KeyError", "TypeError"}
CaughtTransportOnly(exc) == exc = "ConnectionError"
Caught(exc) == exc \in ExceptionClasses

\* Result of a try body: the value returned, the lines printed and the exception
\* raised ("" if none).
Done(r, o) == [ret |-> r, out |-> o, exc |-> ""]
Raised(o, e) == [ret |-> None, out |-> o, exc |-> e]

\* The except clause: a caught exception is reported and becomes `failure`;
\* any other leaves the function (exc stays set).
Handle(t, m, failure) ==
    IF t.exc = "" THEN t
    ELSE IF Caught(t.exc) THEN Done(failure, t.out \o <<Line(m, <<t.exc>>)>>)
    ELSE t

\* requests.post/get followed by response.json(), as far as it raises.
Decoded(reply) == IF reply.decodable THEN "" ELSE "JSONDecodeError"

\* --- register_terminal_reader
RegisterPrintsWithoutStatus ==
    << Stmt("reader_id", << <<"id">> >>),
       Stmt("device_type", << <<"device_type">> >>),
       Stmt("location", << <<"location">> >>) >>
RegisterPrints ==
    << Stmt("reader_id", << <<"id">> >>),
       Stmt("device_type", << <<"device_type">> >>),
       Stmt("location", << <<"location">> >>),
       Stmt("status", << <<"status">> >>) >>

RegisterAnnounce ==
    << Line("registering", <<>>), Line("announce_location", <<LOCATION_ID>>),
       Line("announce_label", <<READER_LABEL>>) >>

RegisterTry(reply) ==
    IF reply.transport # "ok" THEN Raised(<<>>, "ConnectionError")
    ELSE IF StatusOk(reply.status) THEN
        IF Decoded(reply) # "" THEN Raised(<<>>, Decoded(reply))
        ELSE LET p == RunPrints(reply.json, RegisterPrints)
                 o == <<Line("registered_successfully", <<>>)>> \o p.out
             IN IF p.exc # "" THEN Raised(o, p.exc) ELSE Done(reply.json, o)
    ELSE Done(None, << Line("registration_failed_http", <<reply.status>>),
                       Line("error_text", <<reply.json>>) >>)

register_terminal_reader(reply) ==
    LET r == Handle(RegisterTry(reply), "error_registering_reader", None)
    IN [r EXCEPT !.out = RegisterAnnounce \o @]

\* --- list_existing_readers
ListEntryPrints ==
    << Stmt("reader_line", << <<"id">>, <<"label">>, <<"device_type">> >>),
       Stmt("reader_detail", << <<"location">>, <<"status">> >>) >>

\* What `for reader in v` yields: a list's elements, a dict's keys.
Items(v) ==
    IF v.kind = "list" THEN v.val
    ELSE LET n == Cardinality(DOMAIN v.val)
             order == CHOOSE q \in [1..n -> DOMAIN v.val] :
                         \A i, j \in 1..n : q[i] = q[j] => i = j
         IN [i \in 1..n |-> JStr(order[i])]

RECURSIVE PrintReaders(_)
PrintReaders(items) ==
    IF items = <<>> THEN [out |-> <<>>, exc |-> ""]
    ELSE LET h == RunPrints(Head(items), ListEntryPrints)
         IN IF h.exc # "" THEN h
            ELSE LET r == PrintReaders(Tail(items))
                 IN [out |-> h.out \o r.out, exc |-> r.exc]

ListTry(reply) ==
    IF reply.transport # "ok" THEN Raised(<<>>, "ConnectionError")
    ELSE IF StatusOk(reply.status) THEN
        IF Decoded(reply) # "" THEN Raised(<<>>, Decoded(reply))
        ELSE LET d == Lookup(reply.json, <<"data">>)
             IN IF d.exc # "" THEN Raised(<<>>, d.exc)
                ELSE IF d.value.kind = "null" THEN Raised(<<>>, "TypeError")
                ELSE LET p == PrintReaders(Items(d.value))
                         o == <<Line("found_readers", <<Len(Items(d.value))>>)>> \o p.out
                     IN IF p.exc # "" THEN Raised(o, p.exc) ELSE Done(d.value, o)
    ELSE Done(JList(<<>>), <<Line("list_failed_http", <<reply.status>>)>>)

list_existing_readers(reply) ==
    Handle(ListTry(reply), "error_listing_readers", JList(<<>>))

\* --- verify_location
LocationPrints ==
    << Stmt("location_verified", << <<"display_name">> >>),
       Stmt("address", << <<"address", "line1">>, <<"address", "city">> >>) >>

VerifyTry(reply) ==
    IF reply.transport # "ok" THEN Raised(<<>>, "ConnectionError")
    ELSE IF StatusOk(reply.status) THEN
        IF Decoded(reply) # "" THEN Raised(<<>>, Decoded(reply))
        ELSE LET p == RunPrints(reply.json, LocationPrints)
             IN IF p.exc # "" THEN Raised(p.out, p.exc) ELSE Done(reply.json, p.out)
    ELSE Done(None, <<Line("location_failed_http", <<reply.status>>)>>)

verify_location(reply) ==
    Handle(VerifyTry(reply), "error_verifying_location", None)

\* ---------------------------------------------------------------- __main__
VARIABLES
    key,               \* STRIPE_SECRET_KEY
    pc,                \* position in __main__
    out,               \* lines printed by this run
    calls,             \* requests issued by this run, each with its reply
    exitStatus,        \* <<>> while running, <<code>> once the process has exited
    traceback,         \* exception that left __main__ uncaught ("" if none)
    location,          \* __main__'s location
    existing_readers,  \* __main__'s existing_readers
    reader,            \* __main__'s reader
    service,           \* reader resources on the remote service, oldest first
    registered,        \* readers returned by successful registrations, all runs
    runs               \* invocations of the script so far

vars == <<key, pc, out, calls, exitStatus, traceback, location, existing_readers,
          reader, service, registered, runs>>

Call(req, reply) == [req |-> req, reply |-> reply]

\* `if STRIPE_SECRET_KEY == "sk_live_YOUR_SECRET_KEY_HERE"`
KeyCheckSkipped(k) == FALSE
KeyIsPlaceholder(k) == k = PLACEHOLDER_KEY

\* `if not location:` -- step 1's outcome decides whether the run goes on.
AfterVerifyNeverAborts(loc) == "list"
AfterVerify(loc) == IF ~Truthy(loc) THEN "abort" ELSE "list"

\* Steps 2 and 3 follow each other whatever existing_readers holds.
AfterListAbortsWhenEmpty(readers) == IF ~Truthy(readers) THEN "abort" ELSE "register"
AfterListRetriesWhenEmpty(readers) == IF ~Truthy(readers) THEN "list" ELSE "register"
AfterList(readers) == "register"

\* Falling off the end of __main__ after the report.
ExitAfterReportOneOnFailure(r) == IF Truthy(r) THEN 0 ELSE 1
ExitAfterReport(r) == 0

Init ==
    /\ key \in Credentials
    /\ pc = "start"
    /\ out = <<>>
    /\ calls = <<>>
    /\ exitStatus = <<>>
    /\ traceback = ""
    /\ location = None
    /\ existing_readers = JList(<<>>)
    /\ reader = None
    /\ service \in {[i \in 1..n |-> PreexistingReader(i)] : n \in 0..MaxPreexisting}
    /\ registered = <<>>
    /\ runs = 1

\* The process ends: by sys.exit(code), by falling off the end, or by an
\* uncaught exception (traceback, status 1).
Exit(code, exc) ==
    /\ pc' = "exited"
    /\ exitStatus' = <<code>>
    /\ traceback' = exc

\* lines 120-125
Start ==
    /\ pc = "start"
    /\ IF KeyIsPlaceholder(key)
       THEN /\ out' = << Line("banner", <<>>), Line("rule", <<>>),
                         Line("update_secret_key", <<>>) >>
            /\ Exit(1, "")
       ELSE /\ out' = << Line("banner", <<>>), Line("rule", <<>>) >>
            /\ pc' = "verify"
            /\ UNCHANGED <<exitStatus, traceback>>
    /\ UNCHANGED <<key, calls, location, existing_readers, reader, service,
                   registered, runs>>

\* lines 127-132, with verify_location
VerifyStep ==
    /\ pc = "verify"
    /\ \E reply \in LocationReplies :
        LET r == verify_location(reply)
            o == out \o <<Line("step_1", <<>>)>> \o r.out
        IN /\ calls' = Append(calls, Call(LocationRequest(key), reply))
           /\ IF r.exc # ""
              THEN /\ out' = o
                   /\ Exit(1, r.exc)
                   /\ UNCHANGED location
              ELSE /\ location' = r.ret
                   /\ IF AfterVerify(r.ret) = "abort"
                      THEN /\ out' = o \o <<Line("cannot_proceed", <<>>)>>
                           /\ Exit(1, "")
                      ELSE /\ out' = o
                           /\ pc' = AfterVerify(r.ret)
                           /\ UNCHANGED <<exitStatus, traceback>>
    /\ UNCHANGED <<key, existing_readers, reader, service, registered, runs>>

\* lines 134-136, with list_existing_readers
ListStep ==
    /\ pc = "list"
    /\ \E reply \in ListReplies(service) :
        LET r == list_existing_readers(reply)
            o == out \o <<Line("step_2", <<>>)>> \o r.out
        IN /\ calls' = Append(calls, Call(ListRequest(key), reply))
           /\ out' = o
           /\ IF r.exc # ""
              THEN /\ Exit(1, r.exc)
                   /\ UNCHANGED existing_readers
              ELSE /\ existing_readers' = r.ret
                   /\ IF AfterList(r.ret) = "abort"
                      THEN Exit(1, "")
                      ELSE /\ pc' = AfterList(r.ret)
                           /\ UNCHANGED <<exitStatus, traceback>>
    /\ UNCHANGED <<key, location, reader, service, registered, runs>>

\* Whether the service carried out a request, given the reply the program saw.
Accepted(reply) ==
    CASE reply.transport = "no_connect" -> {FALSE}
      [] reply.transport = "no_reply" -> BOOLEAN
      [] OTHER -> {reply.status = HTTP_OK}

\* lines 138-140, with register_terminal_reader
RegisterStep ==
    /\ pc = "register"
    /\ \E reply \in ReaderReplies(ServiceReader(service, RegisterRequest(key))) :
       \E accepted \in Accepted(reply) :
        LET r == register_terminal_reader(reply)
            o == out \o <<Line("step_3", <<>>)>> \o r.out
        IN /\ calls' = Append(calls, Call(RegisterRequest(key), reply))
           /\ service' = IF accepted THEN ServiceCreate(service, RegisterRequest(key))
                         ELSE service
           /\ out' = o
           /\ IF r.exc # ""
              THEN /\ Exit(1, r.exc)
                   /\ UNCHANGED <<reader, registered>>
              ELSE /\ reader' = r.ret
                   /\ registered' = IF r.ret.kind = "object"
                                    THEN Append(registered, r.ret) ELSE registered
                   /\ pc' = "report"
                   /\ UNCHANGED <<exitStatus, traceback>>
    /\ UNCHANGED <<key, location, existing_readers, runs>>

\* lines 142-149 and the end of the script
NextSteps ==
    << Stmt("next_steps", <<>>), Stmt("next_dashboard", <<>>),
       Stmt("next_reader_id", << <<"id">> >>), Stmt("next_test_nfc", <<>>),
       Stmt("next_check_status", <<>>) >>

Report ==
    /\ pc = "report"
    /\ IF Truthy(reader)
       THEN LET p == RunPrints(reader, NextSteps)
            IN /\ out' = out \o p.out
               /\ IF p.exc # "" THEN Exit(1, p.exc) ELSE Exit(ExitAfterReport(reader), "")
       ELSE /\ out' = out \o <<Line("registration_failed", <<>>)>>
            /\ Exit(ExitAfterReport(reader), "")
    /\ UNCHANGED <<key, calls, location, existing_readers, reader, service,
                   registered, runs>>

\* The operator runs the script again: a new process, the same remote service.
Rerun ==
    /\ pc = "exited"
    /\ runs < MaxRuns
    /\ runs' = runs + 1
    /\ key' \in Credentials
    /\ pc' = "start"
    /\ out' = <<>>
    /\ calls' = <<>>
    /\ exitStatus' = <<>>
    /\ traceback' = ""
    /\ location' = None
    /\ existing_readers' = JList(<<>>)
    /\ reader' = None
    /\ UNCHANGED <<service, registered>>

Next == Start \/ VerifyStep \/ ListStep \/ RegisterStep \/ Report \/ Rerun

Spec == Init /\ [][Next]_vars

TypeOK ==
    /\ key \in Credentials
    /\ pc \in {"start", "verify", "list", "register", "report", "exited"}
    /\ exitStatus \in {<<>>, <<0>>, <<1>>}
    /\ runs \in 1..MaxRuns

\* ------------------------------------------------------------------ claims
Printed(m) == \E i \in 1..Len(out) : out[i].msg = m
IsCall(c, m, p) == c.req.method = m /\ c.req.path = p
IsLocationGet(c) == IsCall(c, "GET", <<"terminal", "locations", LOCATION_ID>>)
IsReadersGet(c) == IsCall(c, "GET", <<"terminal", "readers">>)
IsReaderPost(c) == IsCall(c, "POST", <<"terminal", "readers">>)
NonSuccess(reply) == reply.transport = "ok" /\ reply.status # 200
TransportFailure(reply) == reply.transport # "ok"
Has(v, path) == Lookup(v, path).exc = ""

\* C1: with the placeholder credential a run issues no network call and can
\* only end with exit status 1.
C1_PlaceholderExitsOneWithoutCalls ==
    key = PLACEHOLDER_KEY =>
        /\ calls = <<>>
        /\ pc \in {"start", "exited"}
        /\ pc = "exited" => exitStatus = <<1>> /\ Printed("update_secret_key")

C1_Witness ==
    key = PLACEHOLDER_KEY /\ pc = "exited" /\ exitStatus = <<1>> /\ calls = <<>>

\* C2: when the location lookup answers with a non-success status or fails in
\* transport, verify_location returns None and the run ends with exit status 1
\* having issued neither the readers GET nor the reader POST.
C2_LocationFailureAborts ==
    (calls # <<>> /\ (NonSuccess(calls[1].reply) \/ TransportFailure(calls[1].reply))) =>
        /\ key # PLACEHOLDER_KEY
        /\ location = None
        /\ Len(calls) = 1 /\ IsLocationGet(calls[1])
        /\ pc = "exited" /\ exitStatus = <<1>>
        /\ Printed("cannot_proceed")

C2_Witness ==
    /\ Len(calls) = 1 /\ calls[1].reply.transport = "ok" /\ calls[1].reply.status = 404
    /\ pc = "exited" /\ exitStatus = <<1>> /\ location = None

\* C3: once the location is verified the reader POST is attempted whatever the
\* readers GET does: a failed enumeration yields an empty list, the run goes on
\* to step 3, and no run with a verified location ends before the POST.
C3_EnumerationFailureNotFatal ==
    /\ (Len(calls) >= 2 /\ (NonSuccess(calls[2].reply) \/ TransportFailure(calls[2].reply))) =>
            /\ existing_readers = JList(<<>>)
            /\ pc \in {"register", "report", "exited"}
    /\ (Truthy(location) /\ pc \in {"report", "exited"}) =>
            Len(calls) = 3 /\ IsReaderPost(calls[3])

C3_Witness ==
    /\ pc = "exited" /\ Len(calls) = 3 /\ IsReaderPost(calls[3])
    /\ calls[2].reply.transport = "ok" /\ calls[2].reply.status = 500
    /\ existing_readers = JList(<<>>)

\* C4: when the reader POST answers with a non-success status,
\* register_terminal_reader returns None and the run prints the failure report,
\* never the success message or the next-steps summary.
C4_RejectedRegistrationReportsFailure ==
    (Len(calls) = 3 /\ NonSuccess(calls[3].reply)) =>
        /\ reader = None
        /\ Printed("registration_failed_http")
        /\ ~Printed("registered_successfully")
        /\ ~Printed("next_steps")
        /\ pc = "exited" => Printed("registration_failed")

C4_Witness ==
    /\ pc = "exited" /\ Len(calls) = 3
    /\ calls[3].reply.transport = "ok" /\ calls[3].reply.status = 400
    /\ calls[3].reply.json = ErrorJson
    /\ Printed("registration_failed")

\* C5: when the reader POST answers 200 with id, device_type, location and
\* status, register_terminal_reader returns that reader, the values printed from
\* step 3 on are the two announced constants followed by exactly those four
\* fields (and the id again in the summary), and the run reports success.
CompleteReader(reply) ==
    /\ reply.transport = "ok" /\ reply.status = 200 /\ reply.decodable
    /\ reply.json.kind = "object" /\ ReaderFields \subseteq DOMAIN reply.json.val

ValuesFromStep3 ==
    LET k == CHOOSE i \in 1..Len(out) : out[i].msg = "step_3"
        carriesValue(l) == l.args # <<>>
    IN SelectSeq(SubSeq(out, k, Len(out)), carriesValue)

C5_AcceptedRegistrationSurfacesFourFields ==
    (Len(calls) = 3 /\ CompleteReader(calls[3].reply)) =>
        LET body == calls[3].reply.json.val
        IN /\ reader = calls[3].reply.json
           /\ Printed("registered_successfully")
           /\ ValuesFromStep3 =
                << Line("announce_location", <<LOCATION_ID>>),
                   Line("announce_label", <<READER_LABEL>>),
                   Line("reader_id", <<body["id"]>>),
                   Line("device_type", <<body["device_type"]>>),
                   Line("location", <<body["location"]>>),
                   Line("status", <<body["status"]>>) >>
                \o (IF pc = "exited" THEN <<Line("next_reader_id", <<body["id"]>>)>>
                    ELSE <<>>)
           /\ ~Printed("registration_failed")
           /\ ~Printed("registration_failed_http")
           /\ ~Printed("error_registering_reader")
           /\ pc = "exited" => Printed("next_steps") /\ Printed("next_check_status")

C5_Witness ==
    /\ pc = "exited" /\ Len(calls) = 3 /\ CompleteReader(calls[3].reply)
    /\ Printed("next_steps") /\ Truthy(reader)

\* C6: a finished run has exit status 1 exactly when the credential is the
\* placeholder or location verification failed; a run that reached the
\* registration step has exit status 0 whether or not registration succeeded.
C6_ExitStatus ==
    pc = "exited" =>
        /\ exitStatus \in {<<0>>, <<1>>}
        /\ exitStatus = <<1>> <=>
              (key = PLACEHOLDER_KEY \/ (Len(calls) = 1 /\ ~Truthy(location)))
        /\ exitStatus = <<0>> <=> Len(calls) = 3

C6_Witness ==
    /\ pc = "exited" /\ exitStatus = <<0>> /\ Len(calls) = 3
    /\ reader = None /\ Printed("registration_failed")

\* C7: a run issues at most the three calls location GET, readers GET, reader
\* POST, in that order and each at most once (a failed call is not repeated);
\* the second and third are issued only after the location GET succeeded.
C7_ThreeCallsInOrder ==
    /\ Len(calls) <= 3
    /\ Len(calls) >= 1 => IsLocationGet(calls[1])
    /\ Len(calls) >= 2 => IsReadersGet(calls[2])
    /\ Len(calls) >= 3 => IsReaderPost(calls[3])
    /\ Len(calls) >= 2 =>
          /\ calls[1].reply.transport = "ok" /\ calls[1].reply.status = 200
          /\ Truthy(location)

C7_Witness ==
    /\ pc = "exited" /\ Len(calls) = 3
    /\ TransportFailure(calls[2].reply) /\ TransportFailure(calls[3].reply)

\* C8: every successful register_terminal_reader call adds exactly one reader
\* to the remote service, a reader that was not there before and is the one
\* returned; readers returned by different successful calls (identical
\* location, label and metadata) are distinct resources that all stay on the
\* service; verify_location and list_existing_readers leave the service's
\* readers unchanged.
ServiceIds == {<<"tmr", service[i].id>> : i \in 1..Len(service)}
RegisteredId(i) == registered[i].val["id"].val

C8_OneResourcePerSuccessfulCall ==
    /\ [](/\ \A i, j \in 1..Len(registered) :
                i # j => RegisteredId(i) # RegisteredId(j)
          /\ \A i \in 1..Len(registered) : RegisteredId(i) \in ServiceIds
          /\ Len(service) >= Len(registered))
    /\ [][/\ pc \in {"start", "verify", "list", "report"} => service' = service
          /\ registered' # registered =>
                /\ Len(registered') = Len(registered) + 1
                /\ Len(service') = Len(service) + 1
                /\ SubSeq(service', 1, Len(service)) = service
                /\ reader'.val["id"].val = <<"tmr", service'[Len(service')].id>>
                /\ reader'.val["id"].val \notin ServiceIds
                /\ service'[Len(service')].label = READER_LABEL
                /\ service'[Len(service')].location = LOCATION_ID]_vars

C8_Witness ==
    /\ runs = 2 /\ Len(registered) = 2 /\ pc = "exited" /\ Truthy(reader)
    /\ Len(service) >= 2
    /\ service[Len(service)].label = service[Len(service) - 1].label

\* C9: an exception raised inside one of the three calls (transport failure,
\* undecodable body, subscripting a missing field) never leaves the function:
\* verify_location and register_terminal_reader return None,
\* list_existing_readers returns an empty list, each reports the error, and the
\* run goes on as after a non-success status: exit 1 after step 1, on to step 3
\* after step 2, failure report and exit 0 after step 3.
Undecodable(reply) == reply.transport = "ok" /\ reply.status = 200 /\ ~reply.decodable
Lacks(reply, paths) ==
    /\ reply.transport = "ok" /\ reply.status = 200 /\ reply.decodable
    /\ \E i \in 1..Len(paths) : ~Has(reply.json, paths[i])

LocationRaises(reply) ==
    \/ TransportFailure(reply) \/ Undecodable(reply)
    \/ Lacks(reply, << <<"display_name">>, <<"address", "line1">>, <<"address", "city">> >>)

ListEntryLacks(e) ==
    \E f \in ListedFields : ~Has(e, <<f>>)

ListRaises(reply) ==
    \/ TransportFailure(reply) \/ Undecodable(reply)
    \/ Lacks(reply, << <<"data">> >>)
    \/ /\ reply.transport = "ok" /\ reply.status = 200 /\ reply.decodable
       /\ Has(reply.json, <<"data">>)
       /\ LET d == reply.json.val["data"]
          IN \/ d.kind = "null"
             \/ d.kind = "object" /\ DOMAIN d.val # {}
             \/ d.kind = "list" /\ \E i \in 1..Len(d.val) : ListEntryLacks(d.val[i])

RegisterRaises(reply) ==
    \/ TransportFailure(reply) \/ Undecodable(reply)
    \/ Lacks(reply, << <<"id">>, <<"device_type">>, <<"location">>, <<"status">> >>)

C9_ExceptionsBecomeFailureResults ==
    /\ traceback = ""
    /\ pc = "exited" => exitStatus \in {<<0>>, <<1>>}
    /\ (Len(calls) >= 1 /\ LocationRaises(calls[1].reply)) =>
          /\ location = None /\ Printed("error_verifying_location")
          /\ Len(calls) = 1 /\ pc = "exited" /\ exitStatus = <<1>>
    /\ (Len(calls) >= 2 /\ ListRaises(calls[2].reply)) =>
          /\ existing_readers = JList(<<>>) /\ Printed("error_listing_readers")
          /\ pc \in {"register", "report", "exited"}
          /\ pc = "exited" => Len(calls) = 3
    /\ (Len(calls) >= 3 /\ RegisterRaises(calls[3].reply)) =>
          /\ reader = None /\ Printed("error_registering_reader")
          /\ pc \in {"report", "exited"}
          /\ pc = "exited" => exitStatus = <<0>> /\ Printed("registration_failed")

C9_Witness ==
    /\ pc = "exited" /\ Len(calls) = 3 /\ traceback = ""
    /\ Lacks(calls[2].reply, << <<"data">> >>)
    /\ Lacks(calls[3].reply, << <<"status">> >>)
    /\ out[Len(out) - 1] = Line("error_registering_reader", <<"KeyError">>)

\* C10: no run prints both the 'registered successfully' message and a
\* registration failure or error message.
C10_SuccessAndFailureExclusive ==
    ~(/\ Printed("registered_successfully")
      /\ \/ Printed("error_registering_reader")
         \/ Printed("registration_failed_http")
         \/ Printed("registration_failed"))

====
